---- MODULE Spec2Model ----
\* A model of respx's HTTPXMock (src/respx/api.py): the pattern registry, the
\* matching loop of _match, the per-exchange backend patching of
\* _patch_backend, the three steps of _send_spy around its await, the call
\* recorder _capture and the scope controller (start/stop/reset/__exit__).
EXTENDS Integers, Sequences, FiniteSets, TLC

\* ---------------------------------------------------------------- bounds
\* Pattern objects created over a run (registered, evicted or reset away).
MaxPatterns == 2
\* Records the global statistics mock holds between two resets.
MaxCalls == 2
\* Patches of Client.send one scope stacks by repeated start().
MaxStarts == 2

\* ------------------------------------------------------------ value space
\* Python's None, as a record so that it compares with every response value.
None == [kind |-> "None"]
\* "no pattern": matched_pattern / matched_pattern_index of _match before a match.
NoPattern == 0

\* The requests the client issues, and the URL matchers patterns are built with.
Requests == {"GET /x", "GET /y"}
Aliases == {"a"}
\* The arguments request() is called with: status_code 0, content_type "" and
\* alias "" stand for the arguments left at None.
PatternArgs ==
  { [url |-> "/x", status_code |-> 0, content_type |-> "text/plain", content |-> "A",
     pass_through |-> FALSE, alias |-> "a"],
    [url |-> "/", status_code |-> 404, content_type |-> "", content |-> "B",
     pass_through |-> FALSE, alias |-> ""],
    [url |-> "/", status_code |-> 0, content_type |-> "", content |-> "",
     pass_through |-> TRUE, alias |-> "a"] }

\* What the real transport does with a request that reaches it.
RealResponse ==
  [kind |-> "Response", status_code |-> 200,
   headers |-> << <<"server", "real">> >>, content |-> "REAL"]
RealOutcomes == {RealResponse, None}

Targets == <<"open_tcp_stream", "open_uds_stream">>

\* str.lower / str.title on the header names the model uses.
Lower(key) == IF key = "Content-Type" THEN "content-type" ELSE key
Title(key) == IF key = "content-type" THEN "Content-Type" ELSE key

\* ------------------------------------------------- models (RequestPattern)
DefaultStatus == 200

\* ResponseTemplate(status_code, headers, content): status defaults to 200.
ResponseTemplate(status_code, headers, content) ==
  [kind |-> "ResponseTemplate",
   status_code |-> IF status_code = 0 THEN DefaultStatus ELSE status_code,
   headers |-> headers, content |-> content, http_version |-> "1.1"]

\* The URL matcher of a pattern: "/x" is an exact URL, "/" a prefix.
UrlMatches(url, request) ==
  \/ url = "/"
  \/ url = "/x" /\ request = "GET /x"

\* RequestPattern.match: the request itself for a pass-through pattern, the
\* response template otherwise, None when the matchers fail.
PatternMatch(pattern, request) ==
  IF ~UrlMatches(pattern.url, request) THEN None
  ELSE IF pattern.pass_through THEN [kind |-> "Request", request |-> request]
  ELSE pattern.response

\* RequestPattern.call_count / RequestPattern.called, read off the stats mock.
call_count(pattern) == Len(pattern.stats)
called(pattern) == call_count(pattern) > 0

\* ------------------------------------------------------------------ state
VARIABLES
  _assert_all_called,  \* constructor flag
  _assert_all_mocked,  \* constructor flag
  _patchers,           \* the scope's started Client.send patchers (what each saved)
  _patterns,           \* the registry: pattern objects (their ids) in order
  aliases,             \* alias -> pattern id (NoPattern: not in the dict)
  stats,               \* call_args_list of the scope's statistics mock
  calls,               \* the public copy of it
  objects,             \* every RequestPattern object created, by id
  Client_send,         \* the attribute httpx.client.Client.send
  backend,             \* the client's ConcurrencyBackend: target -> "real" | "mock"
  ex,                  \* the _send_spy frame in flight, per task
  ret,                 \* what the last operation returned or raised (history)
  unmatched_captured,  \* captured exchanges that matched no pattern (history)
  other_patchers,      \* _patchers of a second HTTPXMock instance
  try                  \* a TryTransport and its handle_request in progress

vars == << _assert_all_called, _assert_all_mocked, _patchers, _patterns, aliases,
           stats, calls, objects, Client_send, backend, ex, ret,
           unmatched_captured, other_patchers, try >>

flags == << _assert_all_called, _assert_all_mocked >>

\* What the operations of this HTTPXMock instance never touch.
elsewhere == << other_patchers, try >>

Tasks == {1, 2}

\* No TryTransport has been constructed.
NoTry == [pc |-> "none"]

IdleFrame ==
  [pc |-> "idle", request |-> "", pattern |-> NoPattern, attachment |-> None,
   patchers |-> <<>>, response |-> None, exc |-> "", real_io |-> FALSE,
   pre_patterns |-> <<>>, pre_counts |-> <<>>, pre_calls |-> <<>>, prev |-> None]

AllIdle == \A t \in Tasks : ex[t].pc = "idle"

\* HTTPXMock.__init__
Init ==
  /\ _assert_all_called \in BOOLEAN
  /\ _assert_all_mocked \in BOOLEAN
  /\ _patchers = <<>>
  /\ _patterns = <<>>
  /\ aliases = [a \in Aliases |-> NoPattern]
  /\ stats = <<>>
  /\ calls = <<>>
  /\ objects = <<>>
  /\ Client_send = "_send"
  /\ backend = [target \in {"open_tcp_stream", "open_uds_stream"} |-> "real"]
  /\ ex = [t \in Tasks |-> IdleFrame]
  /\ ret = [op |-> "__init__"]
  /\ unmatched_captured = 0
  /\ other_patchers = <<>>
  /\ try = NoTry

\* ------------------------------------------------------------- registry
\* Mutant of Pop: the index taken one too far.
Pop_OffByOne(seq, index) ==
  [j \in 1..(Len(seq) - 1) |-> IF j < index + 1 THEN seq[j] ELSE seq[j + 1]]

\* Mutant of Pop: pop() without the index drops the last element.
Pop_Last(seq, index) == SubSeq(seq, 1, Len(seq) - 1)

\* list.pop(index) on a 1-based sequence.
Pop(seq, index) == [j \in 1..(Len(seq) - 1) |-> IF j < index THEN seq[j] ELSE seq[j + 1]]

\* The headers request() hands to the template: Headers(headers or {}) with
\* headers["Content-Type"] = content_type when a content type is given.
RequestHeaders(content_type) ==
  IF content_type # "" THEN << <<Lower("Content-Type"), content_type>> >> ELSE <<>>

\* Mutant of AddAliases: an alias already in use keeps its pattern (setdefault).
AddAliases_KeepFirst(als, id, alias) ==
  IF alias # "" /\ als[alias] = NoPattern THEN [als EXCEPT ![alias] = id] ELSE als

\* HTTPXMock.add: append to the registry; record the alias when one is given.
AddAliases(als, id, alias) ==
  IF alias # "" THEN [als EXCEPT ![alias] = id] ELSE als

\* HTTPXMock.__getitem__: aliases.get(alias), NoPattern for None.
GetItem(als, alias) ==
  IF alias \in DOMAIN als THEN als[alias] ELSE NoPattern

\* HTTPXMock.request (and the per-verb partials): build the template and the
\* pattern, then add() it.
Request(args) ==
  /\ AllIdle
  /\ Len(objects) < MaxPatterns
  /\ LET response == ResponseTemplate(args.status_code,
                                      RequestHeaders(args.content_type), args.content)
         pattern == [url |-> args.url, response |-> response,
                     pass_through |-> args.pass_through, alias |-> args.alias,
                     stats |-> <<>>]
         id == Len(objects) + 1
     IN /\ objects' = Append(objects, pattern)
        /\ _patterns' = Append(_patterns, id)
        /\ aliases' = AddAliases(aliases, id, args.alias)
        /\ ret' = [op |-> "request", pattern |-> id, alias |-> args.alias,
                   pre_patterns |-> _patterns, pre_aliases |-> aliases]
  /\ UNCHANGED << flags, elsewhere, unmatched_captured, _patchers, stats, calls, Client_send, backend, ex >>

\* ---------------------------------------------------------------- _match
\* Lines 212-217: a template answers with itself, a Request (pass-through)
\* with None. (RequestPattern.match returns nothing else, so the ValueError
\* of lines 218-224 is never raised.)
MatchedResponse(match) ==
  IF match.kind = "ResponseTemplate" THEN match ELSE None

\* Lines 204-207: a second match drops the first matching pattern and ends
\* the scan; matched_pattern and response stay those of the first match.
SecondMatch(pats, matched_pattern, matched_pattern_index, response) ==
  [patterns |-> Pop(pats, matched_pattern_index),
   pattern |-> matched_pattern, response |-> response]

\* Mutant of MatchLoop: a second match drops the first matching pattern and
\* restarts the scan on the shortened list.
RECURSIVE MatchLoop_Restart(_, _, _, _, _, _, _)
MatchLoop_Restart(objs, pats, request, i, matched_pattern, matched_pattern_index, response) ==
  IF i > Len(pats)
  THEN [patterns |-> pats, pattern |-> matched_pattern, response |-> response]
  ELSE LET match == PatternMatch(objs[pats[i]], request) IN
       IF match = None
       THEN MatchLoop_Restart(objs, pats, request, i + 1,
                              matched_pattern, matched_pattern_index, response)
       ELSE IF matched_pattern_index # NoPattern
       THEN MatchLoop_Restart(objs, Pop(pats, matched_pattern_index), request, 1,
                              NoPattern, NoPattern, None)
       ELSE MatchLoop_Restart(objs, pats, request, i + 1, pats[i], i,
                              MatchedResponse(match))

\* The for loop of _match, from index i on.
RECURSIVE MatchLoop(_, _, _, _, _, _, _)
MatchLoop(objs, pats, request, i, matched_pattern, matched_pattern_index, response) ==
  IF i > Len(pats)
  THEN [patterns |-> pats, pattern |-> matched_pattern, response |-> response]
  ELSE LET match == PatternMatch(objs[pats[i]], request) IN
       IF match = None
       THEN MatchLoop(objs, pats, request, i + 1,
                      matched_pattern, matched_pattern_index, response)
       ELSE IF matched_pattern_index # NoPattern
       THEN SecondMatch(pats, matched_pattern, matched_pattern_index, response)
       ELSE MatchLoop(objs, pats, request, i + 1, pats[i], i, MatchedResponse(match))

\* Mutant of NotMocked: the assertion left out.
NotMocked_Never(assert_all_mocked, matched_pattern) == FALSE

\* Lines 226-231: the assertion that strict mode found a pattern.
NotMocked(assert_all_mocked, matched_pattern) ==
  assert_all_mocked /\ matched_pattern = NoPattern

\* Mutant of UnmatchedResponse: an unmatched request left without a response.
UnmatchedResponse_None == None

\* Lines 233-234: an unmatched request gets the default ResponseTemplate().
UnmatchedResponse == ResponseTemplate(0, <<>>, "")

\* HTTPXMock._match: the registry it leaves, and what it returns or raises.
_match(objs, pats, request, assert_all_mocked) ==
  LET scan == MatchLoop(objs, pats, request, 1, NoPattern, NoPattern, None) IN
  IF NotMocked(assert_all_mocked, scan.pattern)
  THEN [raised |-> "AssertionError", patterns |-> scan.patterns,
        pattern |-> NoPattern, response |-> None]
  ELSE [raised |-> "", patterns |-> scan.patterns, pattern |-> scan.pattern,
        response |-> IF scan.pattern = NoPattern THEN UnmatchedResponse
                     ELSE scan.response]

\* --------------------------------------------------------- mock transport
\* Mutant of _mock_socket_stream: the header lines left out of the data.
_mock_socket_stream_NoHeaders(response) ==
  [status_line |-> [http_version |-> response.http_version,
                    status_code |-> response.status_code, reason |-> "MOCK"],
   header_lines |-> <<>>,
   body |-> response.content]

\* _mock_socket_stream: the bytes of the mocked socket, as status line,
\* title-cased header lines and body.
_mock_socket_stream(response) ==
  [status_line |-> [http_version |-> response.http_version,
                    status_code |-> response.status_code, reason |-> "MOCK"],
   header_lines |-> [j \in 1..Len(response.headers) |->
                       <<Title(response.headers[j][1]), response.headers[j][2]>>],
   body |-> response.content]

\* httpx reading a response off a socket stream: header names compare
\* case-insensitively (kept lower-cased).
ParseResponse(data) ==
  [kind |-> "Response", status_code |-> data.status_line.status_code,
   headers |-> [j \in 1..Len(data.header_lines) |->
                  <<Lower(data.header_lines[j][1]), data.header_lines[j][2]>>],
   content |-> data.body]

\* Lines 266-278: with a response to deliver, both open-stream methods of the
\* backend are patched, each patcher saving what it replaces.
ShouldPatch(response) == response # None

StartedPatchers(bk, response) ==
  IF ShouldPatch(response)
  THEN [j \in 1..Len(Targets) |-> [target |-> Targets[j], original |-> bk[Targets[j]]]]
  ELSE <<>>

PatchedBackend(bk, patchers) ==
  [target \in DOMAIN bk |->
     IF \E j \in 1..Len(patchers) : patchers[j].target = target
     THEN "mock" ELSE bk[target]]

\* Lines 282-285: each patcher puts back what it saved, in list order.
RECURSIVE StoppedBackend(_, _)
StoppedBackend(bk, patchers) ==
  IF patchers = <<>> THEN bk
  ELSE StoppedBackend([bk EXCEPT ![Head(patchers).target] = Head(patchers).original],
                      Tail(patchers))

\* Mutant of CapturedObjects: the pattern's stats called only with a response.
CapturedObjects_OnSuccess(objs, request, response, pattern) ==
  IF pattern # NoPattern /\ response # None
  THEN [objs EXCEPT ![pattern].stats = Append(@, <<request, response>>)]
  ELSE objs

\* Mutant of CapturedObjects: every pattern's stats called, not the matched one's.
CapturedObjects_All(objs, request, response, pattern) ==
  [j \in 1..Len(objs) |-> [objs[j] EXCEPT !.stats = Append(@, <<request, response>>)]]

\* Mutant of CapturedStats: the call list started over with each record.
CapturedStats_Latest(st, request, response) == << <<request, response>> >>

\* Mutant of CapturedStats: the response left out of the record.
CapturedStats_None(st, request, response) == Append(st, <<request, None>>)

\* Mutant of CallsOf: the records without a response left out of the copy.
CallsOf_SkipNone(st) ==
  SelectSeq([j \in 1..Len(st) |-> <<st[j][1], st[j][2]>>],
            LAMBDA call : call[2] # None)

\* _capture: the pattern's own stats (when there is a pattern), then the
\* scope's stats, then calls rebuilt from the scope's call_args_list.
CapturedObjects(objs, request, response, pattern) ==
  IF pattern # NoPattern
  THEN [objs EXCEPT ![pattern].stats = Append(@, <<request, response>>)]
  ELSE objs

CapturedStats(st, request, response) == Append(st, <<request, response>>)

CallsOf(st) == [j \in 1..Len(st) |-> <<st[j][1], st[j][2]>>]

Counts(objs) == [j \in 1..Len(objs) |-> call_count(objs[j])]

\* The count of captured exchanges without a pattern (_capture's pattern=None).
CapturedUnmatched(n, pattern) == IF pattern = NoPattern THEN n + 1 ELSE n

\* The exchange completed right before this one, if the last operation was one.
PrevSend(last) ==
  IF last.op = "send"
  THEN [kind |-> "send", request |-> last.request,
        pre_patterns |-> last.pre_patterns, post_patterns |-> last.post_patterns]
  ELSE None

\* What _send_spy hands back for an exchange: the history record of it.
SendResult(frame, post_patterns) ==
  [op |-> "send", request |-> frame.request, pattern |-> frame.pattern,
   attachment |-> frame.attachment,
   response |-> frame.response, exc |-> frame.exc, real_io |-> frame.real_io,
   patched |-> frame.patchers # <<>>,
   pre_patterns |-> frame.pre_patterns, pre_counts |-> frame.pre_counts,
   pre_calls |-> frame.pre_calls,
   post_patterns |-> post_patterns, prev |-> frame.prev]

\* _send_spy up to its await: _patch_backend matches the request, attaches the
\* response to the URL and patches the backend. A strict-mode miss raises out
\* of the with statement before its body is entered.
SendSpy(t, request) ==
  /\ Client_send = "unbound_send"
  /\ ex[t].pc = "idle"
  /\ Len(stats) < MaxCalls
  /\ LET m == _match(objects, _patterns, request, _assert_all_mocked)
         frame == [IdleFrame EXCEPT !.request = request,
                                    !.pre_patterns = _patterns,
                                    !.pre_counts = Counts(objects),
                                    !.pre_calls = calls,
                                    !.prev = PrevSend(ret)]
     IN /\ _patterns' = m.patterns
        /\ IF m.raised # ""
           THEN /\ ret' = SendResult([frame EXCEPT !.exc = m.raised], m.patterns)
                /\ UNCHANGED << backend, ex >>
           ELSE LET patchers == StartedPatchers(backend, m.response) IN
                /\ backend' = PatchedBackend(backend, patchers)
                /\ ex' = [ex EXCEPT ![t] =
                            [frame EXCEPT !.pc = "await_send",
                                          !.pattern = m.pattern,
                                          !.attachment = m.response,
                                          !.patchers = patchers]]
                /\ ret' = [op |-> "await"]
  /\ UNCHANGED << flags, elsewhere, unmatched_captured, _patchers, aliases, stats, calls, objects, Client_send >>

\* The awaited _send: the client opens its stream through the backend. The
\* mocked method answers from the response attached to the URL; the real one
\* performs I/O and returns a response or raises.
MockStream(t) ==
  /\ ex[t].pc = "await_send"
  /\ \E target \in {"open_tcp_stream", "open_uds_stream"} :
       /\ backend[target] = "mock"
       /\ ex' = [ex EXCEPT ![t] =
                   IF ex[t].attachment = None
                   THEN [@ EXCEPT !.pc = "sent", !.exc = "AttributeError"]
                   ELSE [@ EXCEPT !.pc = "sent",
                           !.response = ParseResponse(_mock_socket_stream(ex[t].attachment))]]
  /\ ret' = [op |-> "_send"]
  /\ UNCHANGED << flags, elsewhere, unmatched_captured,
                  _patchers, _patterns, aliases, stats, calls, objects,
                  Client_send, backend >>

RealStream(t, outcome) ==
  /\ ex[t].pc = "await_send"
  /\ \E target \in {"open_tcp_stream", "open_uds_stream"} :
       /\ backend[target] = "real"
       /\ ex' = [ex EXCEPT ![t] =
                   IF outcome = None
                   THEN [@ EXCEPT !.pc = "sent", !.exc = "NetworkError", !.real_io = TRUE]
                   ELSE [@ EXCEPT !.pc = "sent", !.response = outcome, !.real_io = TRUE]]
  /\ ret' = [op |-> "_send"]
  /\ UNCHANGED << flags, elsewhere, unmatched_captured,
                  _patchers, _patterns, aliases, stats, calls, objects,
                  Client_send, backend >>

\* _send_spy after its await: the finally clause captures the exchange, the
\* with statement stops the backend patchers, and the response is returned
\* (or the exception goes on to the caller).
Finish(t) ==
  /\ ex[t].pc = "sent"
  /\ objects' = CapturedObjects(objects, ex[t].request, ex[t].response, ex[t].pattern)
  /\ stats' = CapturedStats(stats, ex[t].request, ex[t].response)
  /\ calls' = CallsOf(stats')
  /\ backend' = StoppedBackend(backend, ex[t].patchers)
  /\ ex' = [ex EXCEPT ![t] = IdleFrame]
  /\ unmatched_captured' = CapturedUnmatched(unmatched_captured, ex[t].pattern)
  /\ ret' = SendResult(ex[t], _patterns)
  /\ UNCHANGED << flags, elsewhere, _patchers, _patterns, aliases, Client_send >>

\* ------------------------------------------------------- scope controller
\* start (and __enter__/__aenter__, which only call it): patch Client.send
\* with this scope's spy; the patcher keeps the attribute it replaced.
Start ==
  /\ AllIdle
  /\ Len(_patchers) < MaxStarts
  /\ _patchers' = Append(_patchers, [original |-> Client_send])
  /\ Client_send' = "unbound_send"
  /\ ret' = [op |-> "start"]
  /\ UNCHANGED << flags, elsewhere, unmatched_captured, _patterns, aliases, stats, calls, objects, backend, ex >>

\* The while loop of stop: pop the patchers, last started first, each putting
\* back the attribute it saved.
RECURSIVE StoppedSend(_, _)
StoppedSend(send, patchers) ==
  IF patchers = <<>> THEN send
  ELSE StoppedSend(patchers[Len(patchers)].original, SubSeq(patchers, 1, Len(patchers) - 1))

\* reset: what it leaves of the patcher list (clear() drops the patchers
\* without stopping them).
ResetPatchers(patchers) == <<>>

\* reset: patchers, registry, aliases, calls and statistics are cleared. The
\* pattern objects the scope no longer refers to leave the model with it.
ResetState ==
  /\ _patterns' = <<>>
  /\ objects' = <<>>
  /\ aliases' = [a \in DOMAIN aliases |-> NoPattern]
  /\ calls' = <<>>
  /\ stats' = <<>>
  /\ unmatched_captured' = 0

Reset ==
  /\ AllIdle
  /\ _patchers' = ResetPatchers(_patchers)
  /\ ResetState
  /\ ret' = [op |-> "reset"]
  /\ UNCHANGED << flags, elsewhere, Client_send, backend, ex >>

\* stop(reset): undo the patches, then reset() unless told not to.
StopState(reset) ==
  /\ Client_send' = StoppedSend(Client_send, _patchers)
  /\ IF reset
     THEN /\ _patchers' = ResetPatchers(<<>>)
          /\ ResetState
     ELSE /\ _patchers' = <<>>
          /\ UNCHANGED << _patterns, aliases, calls, stats, objects, unmatched_captured >>

Stop(reset) ==
  /\ AllIdle
  /\ StopState(reset)
  /\ ret' = [op |-> "stop"]
  /\ UNCHANGED << flags, elsewhere, backend, ex >>

\* Mutant of AssertAllCalledFails: any() in place of all().
AssertAllCalledFails_Any(objs, pats) ==
  ~ \E j \in 1..Len(pats) : called(objs[pats[j]])

\* assert_all_called: the assertion fails unless every pattern of the
\* registry has been called.
AssertAllCalledFails(objs, pats) ==
  ~ \A j \in 1..Len(pats) : called(objs[pats[j]])

AssertAllCalled ==
  /\ AllIdle
  /\ ret' = [op |-> "assert_all_called",
             exc |-> IF AssertAllCalledFails(objects, _patterns)
                     THEN "AssertionError" ELSE ""]
  /\ UNCHANGED << flags, elsewhere, unmatched_captured,
                  _patchers, _patterns, aliases, stats, calls, objects,
                  Client_send, backend, ex >>

\* __exit__ (and __aexit__): the assertion when enabled, and stop() in the
\* finally clause whether it failed or not.
ExitRaises(assert_all_called, objs, pats) ==
  assert_all_called /\ AssertAllCalledFails(objs, pats)

Exit ==
  /\ AllIdle
  /\ StopState(TRUE)
  /\ ret' = [op |-> "__exit__",
             exc |-> IF ExitRaises(_assert_all_called, objects, _patterns)
                     THEN "AssertionError" ELSE "",
             pre_patterns |-> _patterns, pre_counts |-> Counts(objects)]
  /\ UNCHANGED << flags, elsewhere, backend, ex >>

\* ---------------------------------------------------------- specification
\* One caller: scope operations and exchanges follow each other, each
\* exchange running its three steps before the caller goes on.
Next ==
  \/ \E args \in PatternArgs : Request(args)
  \/ Start
  \/ \E reset \in BOOLEAN : Stop(reset)
  \/ Reset
  \/ AssertAllCalled
  \/ Exit
  \/ \E request \in Requests : SendSpy(1, request)
  \/ MockStream(1)
  \/ \E outcome \in RealOutcomes : RealStream(1, outcome)
  \/ Finish(1)

Spec == Init /\ [][Next]_vars

\* ----------------------------------------------------------- TryTransport
\* (src/respx/transports.py)
\* Transports one TryTransport is constructed with.
MaxTransports == 3

\* The state of the HTTPXMock instance and of the client it patches.
mock_vars == << _assert_all_called, _assert_all_mocked, _patchers, _patterns, aliases,
                stats, calls, objects, Client_send, backend, ex, ret,
                unmatched_captured, other_patchers >>

\* The arguments handle_request / handle_async_request is called with.
TryArgs ==
  [method |-> "GET", url |-> "/x", headers |-> <<>>, stream |-> "s0",
   extensions |-> "ext"]

\* What a transport of the list does when invoked: it returns a response,
\* raises PassThrough carrying a request (with its stream), or raises
\* something else.
TransportOutcomes ==
  { [kind |-> "return", response |-> "R1"],
    [kind |-> "return", response |-> "R2"],
    [kind |-> "PassThrough", stream |-> "s1"],
    [kind |-> "PassThrough", stream |-> "s2"],
    [kind |-> "raise", exc |-> "ConnectError"] }

\* TryTransport.__init__: the list of transports (each named by its position).
TryTransport(n) ==
  [pc |-> "ready", variant |-> "", transports |-> [k \in 1..n |-> k], i |-> 1,
   args |-> TryArgs, invoked |-> <<>>, outcomes |-> <<>>, result |-> None]

\* Mutant of TryExhausted: the loop falls through and returns nothing.
TryExhausted_None == None

\* Line 94 / 113: the raise after the loop.
TryExhausted == [kind |-> "raise", exc |-> "RuntimeError"]

\* Mutant of NextStream: the stream of the PassThrough is not taken over.
NextStream_Kept(stream, outcome) == stream

\* Line 92 / 111: stream = pass_through.request.stream
NextStream(stream, outcome) == outcome.stream

\* The call itself: the loop is entered, or ends at once on an empty list.
TryCalled(st, variant) ==
  LET fresh == [TryTransport(Len(st.transports)) EXCEPT !.variant = variant] IN
  IF st.transports = <<>>
  THEN [fresh EXCEPT !.pc = "done", !.result = TryExhausted]
  ELSE [fresh EXCEPT !.pc = "loop"]

\* One turn of the for loop: the transport is invoked with the current
\* arguments; its result or its exception ends the call, PassThrough moves on
\* to the next transport with the stream it carries, and the end of the list
\* raises.
TryIteration(st, outcome) ==
  LET tried == [st EXCEPT !.invoked = Append(@, [transport |-> st.transports[st.i],
                                                    args |-> st.args]),
                           !.outcomes = Append(@, outcome)]
  IN IF outcome.kind = "PassThrough"
     THEN LET moved == [tried EXCEPT !.args.stream = NextStream(@, outcome),
                                      !.i = st.i + 1]
          IN IF st.i = Len(st.transports)
             THEN [moved EXCEPT !.pc = "done", !.result = TryExhausted]
             ELSE moved
     ELSE [tried EXCEPT !.pc = "done", !.result = outcome]

\* TryTransport.handle_request
HandleRequestCall ==
  /\ try.pc \in {"ready", "done"}
  /\ try' = TryCalled(try, "handle_request")
  /\ UNCHANGED mock_vars

HandleRequestLoop(outcome) ==
  /\ try.pc = "loop"
  /\ try.variant = "handle_request"
  /\ try' = TryIteration(try, outcome)
  /\ UNCHANGED mock_vars

\* TryTransport.handle_async_request
HandleAsyncRequestCall ==
  /\ try.pc \in {"ready", "done"}
  /\ try' = TryCalled(try, "handle_async_request")
  /\ UNCHANGED mock_vars

HandleAsyncRequestLoop(outcome) ==
  /\ try.pc = "loop"
  /\ try.variant = "handle_async_request"
  /\ try' = TryIteration(try, outcome)
  /\ UNCHANGED mock_vars

\* A TryTransport over a list of up to MaxTransports transports, called in
\* either variant.
InitTry ==
  /\ _assert_all_called = TRUE
  /\ _assert_all_mocked = TRUE
  /\ _patchers = <<>>
  /\ _patterns = <<>>
  /\ aliases = [a \in Aliases |-> NoPattern]
  /\ stats = <<>>
  /\ calls = <<>>
  /\ objects = <<>>
  /\ Client_send = "_send"
  /\ backend = [target \in {"open_tcp_stream", "open_uds_stream"} |-> "real"]
  /\ ex = [t \in Tasks |-> IdleFrame]
  /\ ret = [op |-> "__init__"]
  /\ unmatched_captured = 0
  /\ other_patchers = <<>>
  /\ try \in {TryTransport(n) : n \in 0..MaxTransports}

NextTry ==
  \/ HandleRequestCall
  \/ \E outcome \in TransportOutcomes : HandleRequestLoop(outcome)
  \/ HandleAsyncRequestCall
  \/ \E outcome \in TransportOutcomes : HandleAsyncRequestLoop(outcome)

SpecTry == InitTry /\ [][NextTry]_vars

\* ------------------------------------------------ overlapping exchanges
\* Two coroutines on one event loop send through the same client: each
\* _send_spy runs up to its await, and the loop resumes them in any order.
NextAsync ==
  \/ \E args \in PatternArgs : Request(args)
  \/ Start
  \/ \E t \in Tasks, request \in Requests : SendSpy(t, request)
  \/ \E t \in Tasks : MockStream(t)
  \/ \E t \in Tasks, outcome \in RealOutcomes : RealStream(t, outcome)
  \/ \E t \in Tasks : Finish(t)

SpecAsync == Init /\ [][NextAsync]_vars

\* ------------------------------------------------------------ two scopes
\* start and stop of a second HTTPXMock instance: the same attribute of the
\* same class patched with that instance's own spy.
StartB ==
  /\ AllIdle
  /\ Len(other_patchers) < MaxStarts
  /\ other_patchers' = Append(other_patchers, [original |-> Client_send])
  /\ Client_send' = "unbound_send_B"
  /\ ret' = [op |-> "start_B"]
  /\ UNCHANGED << flags, try, unmatched_captured, _patchers, _patterns, aliases,
                  stats, calls, objects, backend, ex >>

StopB ==
  /\ AllIdle
  /\ Client_send' = StoppedSend(Client_send, other_patchers)
  /\ other_patchers' = <<>>
  /\ ret' = [op |-> "stop_B"]
  /\ UNCHANGED << flags, try, unmatched_captured, _patchers, _patterns, aliases,
                  stats, calls, objects, backend, ex >>

\* Two instances started and stopped in any order by one caller, with
\* registrations and exchanges on the first in between.
NextScopes ==
  \/ \E args \in PatternArgs : Request(args)
  \/ Start
  \/ \E reset \in BOOLEAN : Stop(reset)
  \/ StartB
  \/ StopB
  \/ \E request \in Requests : SendSpy(1, request)
  \/ MockStream(1)
  \/ \E outcome \in RealOutcomes : RealStream(1, outcome)
  \/ Finish(1)

SpecScopes == Init /\ [][NextScopes]_vars

\* ------------------------------------------------------------------ claims
Range(seq) == {seq[j] : j \in 1..Len(seq)}

\* The patterns of a registry whose matchers accept a request, in registry order.
MatchingIds(pats, request) ==
  SelectSeq(pats, LAMBDA id : UrlMatches(objects[id].url, request))

\* A response carries the status, headers and body of a template.
SameAsTemplate(response, template) ==
  /\ response.kind = "Response"
  /\ response.status_code = template.status_code
  /\ response.headers = template.headers
  /\ response.content = template.content

\* The last operation was an exchange, completed or rejected.
Sent == ret.op = "send"

InFlight == ex[1].pc \in {"await_send", "sent"}

\* C1: a request matching exactly one registered pattern, one with a response
\* template, is answered with that template's status, headers and body; the
\* registry is as before the exchange and the pattern's call count is one more.
C1_SingleMatchAnswered ==
  Sent =>
    LET matching == MatchingIds(ret.pre_patterns, ret.request) IN
    (Len(matching) = 1 /\ ~objects[matching[1]].pass_through) =>
      /\ ret.exc = ""
      /\ SameAsTemplate(ret.response, objects[matching[1]].response)
      /\ _patterns = ret.pre_patterns
      /\ call_count(objects[matching[1]]) = ret.pre_counts[matching[1]] + 1

C1_Witness ==
  /\ Sent
  /\ Len(MatchingIds(ret.pre_patterns, ret.request)) = 1
  /\ ret.pattern # NoPattern
  /\ ret.pre_counts[ret.pattern] = 1
  /\ ~objects[ret.pattern].pass_through
  /\ ret.response.kind = "Response"
  /\ ret.response.headers # <<>>

\* An exchange was answered by a pattern: _match returned it, and the caller
\* got its template (or, for a pass-through pattern, the real transport).
AnsweredBy(id) ==
  /\ ret.pattern = id
  /\ IF objects[id].pass_through
     THEN ret.real_io
     ELSE ret.exc = "" /\ SameAsTemplate(ret.response, objects[id].response)

C3_ReturnedPatternRegistered ==
  (ex[1].pc = "await_send" /\ ex[1].pattern # NoPattern) =>
    ex[1].pattern \in Range(_patterns)

\* C3, amended: a second match evicts the first matching pattern and ends the
\* scan; _match returns the first matching pattern, which is in the registry
\* when _match returns exactly when no other pattern matched the request.
C3_ReturnedPatternIsFirstMatch ==
  (ex[1].pc = "await_send" /\ ex[1].pattern # NoPattern) =>
    LET matching == MatchingIds(ex[1].pre_patterns, ex[1].request) IN
    /\ ex[1].pattern = matching[1]
    /\ ex[1].pattern \in Range(_patterns) <=> Len(matching) = 1
    /\ Len(matching) >= 2 =>
         _patterns = SelectSeq(ex[1].pre_patterns, LAMBDA id : id # matching[1])

C3_Witness ==
  /\ ex[1].pc = "await_send"
  /\ ex[1].pattern # NoPattern
  /\ ex[1].pattern \notin Range(_patterns)
  /\ _patterns # <<>>

\* C4: assert_all_called() raises exactly when some pattern now in the
\* registry has call count 0; it does not raise on an empty registry.
C4_AssertAllCalledIffUncalled ==
  ret.op = "assert_all_called" =>
    (ret.exc = "AssertionError" <=>
       \E j \in 1..Len(_patterns) : call_count(objects[_patterns[j]]) = 0)

\* Raised although a pattern was called: the called one was evicted.
C4_Witness ==
  /\ ret.op = "assert_all_called"
  /\ ret.exc = "AssertionError"
  /\ \E id \in 1..Len(objects) : call_count(objects[id]) > 0

\* The record the recorder appended for the exchange just completed, in the
\* global list and in the matched pattern's own.
RecordedGlobally(response) ==
  /\ Len(calls) = Len(ret.pre_calls) + 1
  /\ calls[Len(calls)] = <<ret.request, response>>
  /\ stats = calls

RecordedForPattern(id, response) ==
  /\ call_count(objects[id]) = ret.pre_counts[id] + 1
  /\ objects[id].stats[Len(objects[id].stats)] = <<ret.request, response>>

PassedThrough == Sent /\ ret.pattern # NoPattern /\ objects[ret.pattern].pass_through

\* What a pass-through exchange does to the transport: nothing synthetic is
\* attached, no backend method is patched, the real transport answers.
RealTransportAnswers ==
  /\ ret.attachment = None
  /\ ~ret.patched
  /\ ret.real_io
  /\ ret.response \in RealOutcomes
  /\ ret.exc = (IF ret.response = None THEN "NetworkError" ELSE "")

\* C5 as stated: the response recorded for a pass-through exchange is none.
C5_PassThroughRecordsNone ==
  PassedThrough =>
    /\ RealTransportAnswers
    /\ RecordedGlobally(None)
    /\ RecordedForPattern(ret.pattern, None)

\* C5, amended: a pass-through exchange patches nothing and is answered by the
\* real transport; the response recorded for it, globally and for the
\* pattern, is the real transport's response, none only when that raised.
C5_PassThroughRecordsRealResponse ==
  PassedThrough =>
    /\ RealTransportAnswers
    /\ RecordedGlobally(ret.response)
    /\ RecordedForPattern(ret.pattern, ret.response)

C5_Witness ==
  /\ PassedThrough
  /\ ret.response = RealResponse
  /\ calls[Len(calls)][2] = RealResponse

\* C6: in strict mode a request no pattern matches is rejected with an
\* assertion failure before anything else happens: no response, no real
\* send, no backend patch, the registry as it was.
C6_StrictUnmatchedRejected ==
  /\ (Sent /\ _assert_all_mocked /\ MatchingIds(ret.pre_patterns, ret.request) = <<>>) =>
       /\ ret.exc = "AssertionError"
       /\ ret.response = None
       /\ ~ret.real_io
       /\ ~ret.patched
       /\ _patterns = ret.pre_patterns
       /\ \A target \in DOMAIN backend : backend[target] = "real"
  /\ (_assert_all_mocked /\ InFlight) => ex[1].pattern # NoPattern

C6_Witness ==
  /\ Sent
  /\ _assert_all_mocked
  /\ ret.exc = "AssertionError"
  /\ _patterns # <<>>

\* C7 as stated: every request handed to the spy leaves exactly one new record
\* in the global call list, a rejected one included.
C7_EveryRequestRecorded ==
  Sent =>
    /\ RecordedGlobally(ret.response)
    /\ ret.exc # "" => ret.response = None

\* C7, amended: every request the match step lets through leaves exactly one
\* new record (with a none response when the exchange raised, the error going
\* on to the caller); a request rejected as unmocked in strict mode leaves none.
C7_RecordedUnlessRejected ==
  Sent =>
    IF ret.exc = "AssertionError"
    THEN calls = ret.pre_calls /\ stats = calls
    ELSE /\ RecordedGlobally(ret.response)
         /\ ret.exc # "" => ret.response = None /\ ret.exc = "NetworkError"
         /\ ret.exc = "" => ret.response # None

C7_Witness ==
  /\ Sent
  /\ ret.exc = "NetworkError"
  /\ Len(calls) = 2
  /\ calls[2] = <<ret.request, None>>

\* C8: __exit__ with assert_all_called enabled raises when a registered
\* pattern was never called, and in either case leaves no patch of the scope
\* installed and registry, aliases and call records empty.
C8_ExitAssertsAndTearsDown ==
  (ret.op = "__exit__" /\ _assert_all_called) =>
    /\ ret.exc = "AssertionError" <=>
         \E j \in 1..Len(ret.pre_patterns) : ret.pre_counts[ret.pre_patterns[j]] = 0
    /\ Client_send = "_send"
    /\ _patchers = <<>>
    /\ _patterns = <<>>
    /\ \A a \in DOMAIN aliases : aliases[a] = NoPattern
    /\ calls = <<>>

Unmatched == Sent /\ ~_assert_all_mocked /\ MatchingIds(ret.pre_patterns, ret.request) = <<>>

\* C9 as stated: outside strict mode an unmatched request goes to the real
\* transport, nothing patched and nothing synthetic.
C9_UnmatchedGoesToRealTransport ==
  Unmatched =>
    /\ ret.pattern = NoPattern
    /\ RealTransportAnswers

\* C9, amended: outside strict mode an unmatched request is answered with the
\* default synthetic response (status 200, no headers, empty body) through the
\* patched backend, without reaching the real transport.
C9_UnmatchedGetsDefaultResponse ==
  Unmatched =>
    /\ ret.pattern = NoPattern
    /\ ret.patched
    /\ ~ret.real_io
    /\ ret.exc = ""
    /\ ret.response = [kind |-> "Response", status_code |-> 200,
                       headers |-> <<>>, content |-> ""]
    /\ RecordedGlobally(ret.response)
    /\ _patterns = ret.pre_patterns

C9_Witness ==
  /\ Unmatched
  /\ _patterns # <<>>
  /\ ret.response.kind = "Response"

\* C10 as stated: while an exchange matched to a pattern is in flight, the
\* pattern's call count already includes it.
C10_CountedAtMatch ==
  (InFlight /\ ex[1].pattern # NoPattern) =>
    call_count(objects[ex[1].pattern]) = ex[1].pre_counts[ex[1].pattern] + 1

\* C10, amended: the call count is incremented when the send has returned or
\* raised (the capture of the finally clause): in flight the count is what it
\* was before the exchange, and it is one more once the exchange is over,
\* whether it returned or raised.
C10_CountedAtCompletion ==
  /\ (InFlight /\ ex[1].pattern # NoPattern) =>
       call_count(objects[ex[1].pattern]) = ex[1].pre_counts[ex[1].pattern]
  /\ (Sent /\ ret.pattern # NoPattern) =>
       call_count(objects[ret.pattern]) = ret.pre_counts[ret.pattern] + 1

C10_Witness ==
  /\ ex[1].pc = "sent"
  /\ ex[1].pattern # NoPattern
  /\ ~called(objects[ex[1].pattern])

\* C11: every registration appends exactly one pattern at the end of the
\* registry; with an alias already in use, alias lookup returns the new
\* pattern while the pattern that held the alias stays where it was.
C11_AliasOverwritesLookupOnly ==
  ret.op = "request" =>
    /\ _patterns = Append(ret.pre_patterns, ret.pattern)
    /\ ret.pattern \notin Range(ret.pre_patterns)
    /\ IF ret.alias # ""
       THEN GetItem(aliases, ret.alias) = ret.pattern
       ELSE aliases = ret.pre_aliases
    /\ \A j \in 1..Len(ret.pre_patterns) :
         GetItem(ret.pre_aliases, ret.alias) = ret.pre_patterns[j] =>
           _patterns[j] = ret.pre_patterns[j]

C11_Witness ==
  /\ ret.op = "request"
  /\ ret.alias # ""
  /\ GetItem(ret.pre_aliases, ret.alias) \in Range(ret.pre_patterns)
  /\ GetItem(aliases, ret.alias) = ret.pattern
  /\ _patterns[1] = GetItem(ret.pre_aliases, ret.alias)

\* The position of the first transport that did not decline, 0 if all did.
FirstAccepting(outcomes) ==
  IF \E k \in 1..Len(outcomes) : outcomes[k].kind # "PassThrough"
  THEN CHOOSE k \in 1..Len(outcomes) :
         /\ outcomes[k].kind # "PassThrough"
         /\ \A j \in 1..(k - 1) : outcomes[j].kind = "PassThrough"
  ELSE 0

\* C12: TryTransport, in either variant, invokes its transports in list order;
\* the first that does not raise PassThrough gives the result and none after
\* it is invoked; after a decline the next transport gets the stream the
\* decline carried, and method, URL, headers and extensions as they came.
C12_FirstAcceptingTransportAnswers ==
  try.pc \in {"loop", "done"} =>
    /\ \A k \in 1..Len(try.invoked) :
         /\ try.invoked[k].transport = try.transports[k]
         /\ try.invoked[k].args.method = TryArgs.method
         /\ try.invoked[k].args.url = TryArgs.url
         /\ try.invoked[k].args.headers = TryArgs.headers
         /\ try.invoked[k].args.extensions = TryArgs.extensions
         /\ try.invoked[k].args.stream =
              (IF k = 1 THEN TryArgs.stream ELSE try.outcomes[k - 1].stream)
         /\ k < Len(try.invoked) => try.outcomes[k].kind = "PassThrough"
    /\ (try.pc = "done" /\ FirstAccepting(try.outcomes) # 0) =>
         /\ try.result = try.outcomes[FirstAccepting(try.outcomes)]
         /\ Len(try.invoked) = FirstAccepting(try.outcomes)

C12_Witness ==
  /\ try.pc = "done"
  /\ try.variant = "handle_async_request"
  /\ Len(try.transports) = 3
  /\ Len(try.invoked) = 2
  /\ try.invoked[2].args.stream = "s2"
  /\ try.result = [kind |-> "return", response |-> "R1"]

AllDeclined ==
  /\ try.pc \in {"loop", "done"}
  /\ Len(try.outcomes) = Len(try.transports)
  /\ \A k \in 1..Len(try.outcomes) : try.outcomes[k].kind = "PassThrough"

\* C13: when every transport declines (an empty list included) the call ends
\* in RuntimeError, each transport having been invoked exactly once; nothing
\* is retried and nothing returned.
C13_AllDeclinedIsRuntimeError ==
  AllDeclined =>
    /\ try.pc = "done"
    /\ try.result = [kind |-> "raise", exc |-> "RuntimeError"]
    /\ Len(try.invoked) = Len(try.transports)
    /\ \A k \in 1..Len(try.invoked) : try.invoked[k].transport = try.transports[k]

C13_Witness ==
  /\ AllDeclined
  /\ try.variant = "handle_request"
  /\ Len(try.transports) = 2
  /\ try.result.kind = "raise"

C13_WitnessEmpty ==
  /\ AllDeclined
  /\ try.transports = <<>>
  /\ try.result.kind = "raise"

\* C14: after any sequence of start(), reset(), registrations and exchanges
\* on the scope, a stop() leaves none of its patches installed: Client.send is
\* the original again.
C14_StopRemovesAllPatches ==
  ret.op = "stop" =>
    /\ _patchers = <<>>
    /\ Client_send = "_send"

\* The patterns whose call count a step changes.
Recounted ==
  {id \in 1..Len(objects) : call_count(objects'[id]) # call_count(objects[id])}

\* C15: between resets no call count decreases, and a step changes the count
\* of at most one pattern: the one _match returned for the exchange being
\* captured, by one; an exchange without a pattern changes none.
C15_OnlyReturnedPatternCounted ==
  [][Len(objects') >= Len(objects) =>
       /\ \A id \in 1..Len(objects) :
            call_count(objects'[id]) >= call_count(objects[id])
       /\ Cardinality(Recounted) <= 1
       /\ \A id \in Recounted :
            /\ ex[1].pc = "sent"
            /\ ex[1].pattern = id
            /\ call_count(objects'[id]) = call_count(objects[id]) + 1]_vars

\* The second matching pattern, found while the first was evicted, is not
\* counted.
C15_Witness ==
  /\ Sent
  /\ Len(MatchingIds(ret.pre_patterns, ret.request)) >= 2
  /\ call_count(objects[ret.pattern]) = 1
  /\ call_count(objects[MatchingIds(ret.pre_patterns, ret.request)[2]]) = 0

RECURSIVE SumOf(_)
SumOf(seq) == IF seq = <<>> THEN 0 ELSE Head(seq) + SumOf(Tail(seq))

RECURSIVE IsSubsequence(_, _)
IsSubsequence(part, whole) ==
  IF part = <<>> THEN TRUE
  ELSE IF whole = <<>> THEN FALSE
  ELSE IF Head(part) = Head(whole) THEN IsSubsequence(Tail(part), Tail(whole))
  ELSE IsSubsequence(part, Tail(whole))

\* C16: between two resets the global call list holds one record per captured
\* exchange, in capture order: its length is the sum of the call counts of
\* all patterns registered since the reset (evicted ones too) plus the number
\* of captured exchanges without a pattern, each pattern's own records appear
\* in it in their order, and a capture appends to it.
C16_CallsAddUp ==
  /\ calls = stats
  /\ Len(calls) = SumOf(Counts(objects)) + unmatched_captured
  /\ \A id \in 1..Len(objects) : IsSubsequence(objects[id].stats, calls)
  /\ (Sent /\ ret.exc # "AssertionError") =>
       calls = Append(ret.pre_calls, <<ret.request, ret.response>>)

C16_Witness ==
  /\ Len(calls) = 2
  /\ unmatched_captured = 1
  /\ \E id \in 1..Len(objects) : call_count(objects[id]) = 1 /\ id \notin Range(_patterns)

C17_SyntheticNeverRealIO ==
  \A t \in Tasks : ex[t].attachment # None => ~ex[t].real_io

\* C18: whenever no exchange is in flight, both open-stream methods of the
\* backend are the original ones.
C18_BackendRestoredWhenIdle ==
  AllIdle => \A target \in DOMAIN backend : backend[target] = "real"

\* C20: once both instances are stopped, Client.send is the original entry
\* point, so no request is intercepted.
C20_BothStoppedRestoresSend ==
  (_patchers = <<>> /\ other_patchers = <<>>) => Client_send = "_send"

====
